---- MODULE Spec2Model ----
(***************************************************************************)
(* Model of TransactionsWeb3Dal (core/lib/dal/src/transactions_web3_dal.rs).*)
(*                                                                          *)
(* The store tables are the variables transactions, miniblocks,             *)
(* storage_logs, events and l2_to_l1_logs; historical_nonce is what         *)
(* get_address_historical_nonce answers for each account.  One call of the  *)
(* DAL runs at a time: pc is its position, args its arguments, locals its   *)
(* local variables, lookups the outcomes of the store lookups it has made   *)
(* so far ("found", "absent" or "failed") and ret its outcome.  client is   *)
(* the state of a caller that pages through transactions_since, and         *)
(* second_read a history variable: the store as it was when next_nonce ran  *)
(* its nonce query.                                                         *)
(*                                                                          *)
(* download_bytes (core/lib/prover_utils/src/lib.rs) runs as a call of its  *)
(* own: lookups then holds the outcome of every request it has sent.        *)
(***************************************************************************)
EXTENDS Integers, Sequences, FiniteSets, TLC

VARIABLES transactions, miniblocks, storage_logs, events, l2_to_l1_logs,
          historical_nonce,
          pc, args, locals, lookups, ret, client, second_read

vars == <<transactions, miniblocks, storage_logs, events, l2_to_l1_logs,
          historical_nonce,
          pc, args, locals, lookups, ret, client, second_read>>

store == <<transactions, miniblocks, storage_logs, events, l2_to_l1_logs,
          historical_nonce>>

(***************************************************************************)
(* Bounds of the model.                                                     *)
(***************************************************************************)
MaxTxs == 2          \* rows of the transactions table in the nonce model
MaxNonce == 2        \* nonces are 0..MaxNonce
MaxDupTxs == 3       \* rows of the transactions table when nonces may repeat
MaxArrivals == 3     \* rows of the transactions table in the paginator model
MaxTime == 3         \* arrival timestamps are 1..MaxTime, cursors 0..MaxTime
MaxLimit == 2        \* limits are absent or 0..MaxLimit
MaxGas == 2          \* gas_limit and refunded_gas are 0..MaxGas
MaxLogs == 2         \* rows of events, and of l2_to_l1_logs, a writer appends
MaxTxIndex == 1      \* tx_index values 0..MaxTxIndex fit an i32, MaxTxIndex + 1 does not
MaxStorageLogs == 2  \* rows of storage_logs in the contract address model

(***************************************************************************)
(* Option<T>: None is the empty sequence, Some(x) the one-element sequence. *)
(***************************************************************************)
None == <<>>
Some(x) == <<x>>
IsSome(o) == o /= <<>>
IsNone(o) == o = <<>>
Unwrap(o) == o[1]
Option(S) == {None} \cup {Some(x) : x \in S}

(***************************************************************************)
(* Outcomes of a call: Ok(v), Err (a propagated SqlxError) or Panic.        *)
(***************************************************************************)
Ok(v) == [kind |-> "ok", value |-> v]
Err == [kind |-> "err"]
Panic == [kind |-> "panic"]
NoRet == [kind |-> "none"]

Hashes == 1..3
Accounts == {"A", "B"}
Nonces == 0..MaxNonce

RECURSIVE SubsetsUpTo(_, _)
SubsetsUpTo(S, k) ==
    IF k = 0 THEN {{}}
    ELSE LET P == SubsetsUpTo(S, k - 1)
         IN  P \cup {p \cup {x} : p \in P, x \in S}

\* A table holding the rows of the set S under the hashes 1..|S|.
TableOf(S) ==
    CHOOSE f \in [1..Cardinality(S) -> S] : \A i, j \in DOMAIN f : f[i] = f[j] => i = j

(***************************************************************************)
(* A row of the transactions table.                                         *)
(***************************************************************************)
DefaultRow ==
    [initiator_address |-> "A", nonce |-> 0, is_priority |-> FALSE,
     miniblock_number |-> None, error |-> None, received_at |-> 0,
     transfer_to |-> None, execute_contract_address |-> None,
     tx_format |-> None, index_in_block |-> None, l1_batch_tx_index |-> None,
     effective_gas_price |-> None, refunded_gas |-> 0, gas_limit |-> None]

StoreEmpty ==
    /\ miniblocks = <<>>
    /\ storage_logs = <<>>
    /\ events = <<>>
    /\ l2_to_l1_logs = <<>>

CallIdle ==
    /\ pc = "idle"
    /\ args = [op |-> "none"]
    /\ locals = [op |-> "none"]
    /\ lookups = <<>>
    /\ ret = NoRet
    /\ client = [paging |-> FALSE]
    /\ second_read = [taken |-> FALSE]

\* The call ends with outcome r.
Finish(r) ==
    /\ pc' = "done"
    /\ ret' = r

(***************************************************************************)
(* next_nonce_by_initiator_account                                          *)
(***************************************************************************)

\* WHERE ... (miniblock_number IS NOT NULL OR error IS NULL), mutated: a
\* transaction with an error counts as rejected even when it is included.
NonRejectedErrorOnly(row) == IsNone(row.error)

\* WHERE ... (miniblock_number IS NOT NULL OR error IS NULL), mutated: only
\* the transactions still waiting for a miniblock are selected.
NonRejectedPendingOnly(row) == IsNone(row.miniblock_number) /\ IsNone(row.error)

\* WHERE ... (miniblock_number IS NOT NULL OR error IS NULL)
NonRejected(row) == IsSome(row.miniblock_number) \/ IsNone(row.error)

\* The rows selected by the WHERE clause of the nonce query.
NonceQueryRows(initiator_address, latest_nonce) ==
    {h \in DOMAIN transactions :
        /\ transactions[h].initiator_address = initiator_address
        /\ transactions[h].nonce >= latest_nonce
        /\ transactions[h].is_priority = FALSE
        /\ NonRejected(transactions[h])}

\* SELECT nonce ... ORDER BY nonce, over the rows H.
RECURSIVE OrderByNonce(_)
OrderByNonce(H) ==
    IF H = {} THEN <<>>
    ELSE LET h == CHOOSE x \in H :
                     \A y \in H : transactions[x].nonce <= transactions[y].nonce
         IN  <<transactions[h].nonce>> \o OrderByNonce(H \ {h})

\* The loop over non_rejected_nonces: the first "gap" in nonces.
RECURSIVE FindGap(_, _)
FindGap(pending_nonce, nonces) ==
    IF nonces = <<>> THEN pending_nonce
    ELSE IF pending_nonce = Head(nonces)
         THEN FindGap(pending_nonce + 1, Tail(nonces))
         ELSE pending_nonce

NextNonceCall(initiator_address) ==
    /\ pc = "idle"
    /\ pc' = "nn_latest"
    /\ args' = [op |-> "next_nonce", initiator_address |-> initiator_address]
    /\ UNCHANGED <<store, locals, lookups, ret, client, second_read>>

\* get_address_historical_nonce(..)? .expect(..) .as_u64()
NextNonceLatestErr ==
    /\ pc = "nn_latest"
    /\ lookups' = Append(lookups, "failed")
    /\ Finish(Err)
    /\ UNCHANGED <<store, args, locals, client, second_read>>

NextNonceLatestNone ==
    /\ pc = "nn_latest"
    /\ IsNone(historical_nonce[args.initiator_address])
    /\ lookups' = Append(lookups, "absent")
    /\ Finish(Panic)
    /\ UNCHANGED <<store, args, locals, client, second_read>>

NextNonceLatestSome ==
    /\ pc = "nn_latest"
    /\ IsSome(historical_nonce[args.initiator_address])
    /\ locals' = [op |-> "next_nonce",
                  latest_nonce |-> Unwrap(historical_nonce[args.initiator_address]),
                  non_rejected_nonces |-> <<>>]
    /\ lookups' = Append(lookups, "found")
    /\ pc' = "nn_query"
    /\ UNCHANGED <<store, args, ret, client, second_read>>

\* The nonce query: fetch_all(..).await?
NextNonceQueryErr ==
    /\ pc = "nn_query"
    /\ lookups' = Append(lookups, "failed")
    /\ Finish(Err)
    /\ UNCHANGED <<store, args, locals, client, second_read>>

NextNonceQuery ==
    /\ pc = "nn_query"
    /\ LET rows == NonceQueryRows(args.initiator_address, locals.latest_nonce)
       IN  /\ locals' = [locals EXCEPT !.non_rejected_nonces = OrderByNonce(rows)]
           /\ lookups' = Append(lookups, IF rows = {} THEN "absent" ELSE "found")
    /\ second_read' = [taken |-> TRUE, transactions |-> transactions,
                       historical_nonce |-> historical_nonce]
    /\ pc' = "nn_walk"
    /\ UNCHANGED <<store, args, ret, client>>

NextNonceWalk ==
    /\ pc = "nn_walk"
    /\ Finish(Ok(FindGap(locals.latest_nonce, locals.non_rejected_nonces)))
    /\ UNCHANGED <<store, args, locals, lookups, client, second_read>>

NextNonce ==
    \/ \E a \in Accounts : NextNonceCall(a)
    \/ NextNonceLatestErr
    \/ NextNonceLatestNone
    \/ NextNonceLatestSome
    \/ NextNonceQueryErr
    \/ NextNonceQuery
    \/ NextNonceWalk

(***************************************************************************)
(* The nonce model: any table of at most MaxTxs rows that differ in         *)
(* initiator, nonce, priority, inclusion and error.                         *)
(***************************************************************************)
NonceRowKinds == {<<"A", FALSE>>, <<"A", TRUE>>, <<"B", FALSE>>}

NonceRows ==
    {[DefaultRow EXCEPT !.initiator_address = k[1], !.is_priority = k[2],
                        !.nonce = n, !.miniblock_number = m, !.error = e] :
        k \in NonceRowKinds, n \in Nonces,
        m \in Option({1}), e \in Option({"e"})}

\* Every account has the same historical nonce, or none has one.
HistoricalNonces == {[a \in Accounts |-> v] : v \in Option(Nonces)}

InitNonce ==
    /\ \E S \in SubsetsUpTo(NonceRows, MaxTxs) : transactions = TableOf(S)
    /\ historical_nonce \in HistoricalNonces
    /\ StoreEmpty
    /\ CallIdle

SpecNonce == InitNonce /\ [][NextNonce]_vars

\* C1 speaks of rejection as (error present AND inclusion block absent).
Rejected(row) == IsSome(row.error) /\ IsNone(row.miniblock_number)

\* The non-rejected non-priority transactions of the account.
Outstanding(account) ==
    {h \in DOMAIN transactions :
        /\ transactions[h].initiator_address = account
        /\ ~transactions[h].is_priority
        /\ ~Rejected(transactions[h])}

NoDuplicateNonces(account) ==
    \A g, h \in Outstanding(account) :
        transactions[g].nonce = transactions[h].nonce => g = h

NonceTaken(account, n) ==
    \E h \in Outstanding(account) : transactions[h].nonce = n

OutstandingFrom(account, c) ==
    {transactions[h].nonce : h \in {g \in Outstanding(account) : transactions[g].nonce >= c}}

NextNonceReturned ==
    pc = "done" /\ args.op = "next_nonce" /\ ret.kind = "ok"

\* C1: when no two non-rejected non-priority transactions of the account
\* share a nonce, next_nonce returns the smallest nonce n >= confirmed nonce
\* that no non-rejected non-priority transaction of the account carries; with
\* nothing outstanding that is the confirmed nonce, and with the outstanding
\* nonces c..c+k-1 it is c+k.
C1_SmallestFreeNonce ==
    (NextNonceReturned /\ NoDuplicateNonces(args.initiator_address)) =>
        LET a == args.initiator_address
            c == locals.latest_nonce
            O == OutstandingFrom(a, c)
        IN  /\ ret.value >= c
            /\ ~NonceTaken(a, ret.value)
            /\ \A n \in c..(ret.value - 1) : NonceTaken(a, n)
            /\ O = {} => ret.value = c
            /\ O = c..(c + Cardinality(O) - 1) => ret.value = c + Cardinality(O)

\* C1 witness: a failed-but-included transaction at the confirmed nonce and a
\* pending one after it are both counted, next to a rejected transaction.
C1_Witness ==
    /\ NextNonceReturned
    /\ NoDuplicateNonces(args.initiator_address)
    /\ ret.value = locals.latest_nonce + 2
    /\ \E h \in Outstanding(args.initiator_address) :
          /\ transactions[h].nonce = locals.latest_nonce
          /\ IsSome(transactions[h].error)

(***************************************************************************)
(* The nonce model with repeated nonces: any table of at most MaxDupTxs     *)
(* pending non-priority transactions of account A.                          *)
(***************************************************************************)
DupRows == {[DefaultRow EXCEPT !.nonce = n] : n \in Nonces}

InitNonceDup ==
    /\ \E k \in 0..MaxDupTxs : transactions \in [1..k -> DupRows]
    /\ historical_nonce \in HistoricalNonces
    /\ StoreEmpty
    /\ CallIdle

SpecNonceDup == InitNonceDup /\ [][NextNonce]_vars

\* The walk as C10 words it: increment on a nonce equal to the cursor, stop
\* on a nonce greater than the cursor, go on otherwise.
RECURSIVE ClaimedWalk(_, _)
ClaimedWalk(cursor, nonces) ==
    IF nonces = <<>> THEN cursor
    ELSE IF Head(nonces) = cursor THEN ClaimedWalk(cursor + 1, Tail(nonces))
    ELSE IF Head(nonces) > cursor THEN cursor
    ELSE ClaimedWalk(cursor, Tail(nonces))

\* C10: over any ascending nonce sequence, repeated nonces included, the walk
\* starts at the confirmed nonce, moves on once per observed nonce equal to
\* the cursor and ends only at the end of the sequence or at the first
\* observed nonce strictly greater than the cursor.
C10_WalkStopsOnlyAtGap ==
    NextNonceReturned =>
        ret.value = ClaimedWalk(locals.latest_nonce, locals.non_rejected_nonces)

(***************************************************************************)
(* get_pending_txs_hashes_after (transactions_since)                        *)
(***************************************************************************)
Min(a, b) == IF a <= b THEN a ELSE b

\* WHERE received_at > $1, mutated: a transaction received at the cursor is
\* selected too.
ReceivedAfterOrAt(from_timestamp) ==
    {h \in DOMAIN transactions : transactions[h].received_at >= from_timestamp}

\* WHERE received_at > $1
ReceivedAfter(from_timestamp) ==
    {h \in DOMAIN transactions : transactions[h].received_at > from_timestamp}

\* ORDER BY received_at ASC: every order of the rows H that ascends in
\* received_at; rows received at the same time come in any order.
OrderByReceivedAt(H) ==
    {s \in [1..Cardinality(H) -> H] :
        /\ \A i, j \in DOMAIN s : s[i] = s[j] => i = j
        /\ \A i, j \in DOMAIN s :
              i < j => transactions[s[i]].received_at <= transactions[s[j]].received_at}

\* LIMIT $2 (no limit when it is NULL)
Limit(s, limit) ==
    IF IsNone(limit) THEN s ELSE SubSeq(s, 1, Min(Unwrap(limit), Len(s)))

\* records.last().map(|record| record.received_at)
LastLoc(records) ==
    IF records = <<>> THEN None
    ELSE Some(transactions[records[Len(records)]].received_at)

PendingAfterCall(from_timestamp, limit) ==
    /\ pc = "idle"
    /\ pc' = "pa_query"
    /\ args' = [op |-> "get_pending_txs_hashes_after",
                from_timestamp |-> from_timestamp, limit |-> limit]
    /\ client' = [paging |-> TRUE, start |-> from_timestamp, collected |-> <<>>]
    /\ UNCHANGED <<store, locals, lookups, ret, second_read>>

PendingAfterQueryErr ==
    /\ pc = "pa_query"
    /\ lookups' = Append(lookups, "failed")
    /\ Finish(Err)
    /\ UNCHANGED <<store, args, locals, client, second_read>>

PendingAfterQuery ==
    /\ pc = "pa_query"
    /\ \E s \in OrderByReceivedAt(ReceivedAfter(args.from_timestamp)) :
          LET records == Limit(s, args.limit)
          IN  /\ lookups' = Append(lookups, IF records = <<>> THEN "absent" ELSE "found")
              /\ Finish(Ok([hashes |-> records, last_loc |-> LastLoc(records)]))
    /\ UNCHANGED <<store, args, locals, client, second_read>>

\* The caller takes the hashes of the last call and calls again with the
\* cursor that call returned.
PollAgain ==
    /\ pc = "done"
    /\ args.op = "get_pending_txs_hashes_after"
    /\ ret.kind = "ok"
    /\ ret.value.hashes /= <<>>
    /\ client' = [client EXCEPT !.collected = @ \o ret.value.hashes]
    /\ args' = [args EXCEPT !.from_timestamp = Unwrap(ret.value.last_loc)]
    /\ pc' = "pa_query"
    /\ lookups' = <<>>
    /\ ret' = NoRet
    /\ UNCHANGED <<store, locals, second_read>>

PendingAfter ==
    \/ \E t \in 0..MaxTime, l \in Option(0..MaxLimit) : PendingAfterCall(t, l)
    \/ PendingAfterQueryErr
    \/ PendingAfterQuery

ArrivalRows == {[DefaultRow EXCEPT !.received_at = t] : t \in 1..MaxTime}

InitPaginate ==
    /\ \E k \in 0..MaxArrivals : transactions \in [1..k -> ArrivalRows]
    /\ historical_nonce = [a \in Accounts |-> None]
    /\ StoreEmpty
    /\ CallIdle

SpecPaginate == InitPaginate /\ [][PendingAfter \/ PollAgain]_vars

PendingAfterReturned ==
    pc = "done" /\ args.op = "get_pending_txs_hashes_after" /\ ret.kind = "ok"

ReceivedAt(h) == transactions[h].received_at

\* The sequence s holds each element of the set H exactly once, in ascending
\* order of arrival.
AscendingEnumeration(s, H) ==
    /\ {s[i] : i \in DOMAIN s} = H
    /\ Len(s) = Cardinality(H)
    /\ \A i, j \in DOMAIN s : i < j => ReceivedAt(s[i]) <= ReceivedAt(s[j])

\* C7: one call returns hashes of stored transactions that arrived strictly
\* after the cursor, each once, ascending in arrival time, the first `limit`
\* of them (all without a limit); the cursor is the arrival time of the last
\* returned row and is none exactly when nothing is returned.
C7_SingleCall ==
    PendingAfterReturned =>
        LET hs == ret.value.hashes
            got == {hs[i] : i \in DOMAIN hs}
            all == {h \in DOMAIN transactions : ReceivedAt(h) > args.from_timestamp}
        IN  /\ got \subseteq all
            /\ AscendingEnumeration(hs, got)
            /\ Len(hs) = IF IsNone(args.limit) THEN Cardinality(all)
                          ELSE Min(Unwrap(args.limit), Cardinality(all))
            /\ \A h \in all \ got : \A g \in got : ReceivedAt(g) <= ReceivedAt(h)
            /\ (ret.value.last_loc = None) <=> (hs = <<>>)
            /\ hs /= <<>> => ret.value.last_loc = Some(ReceivedAt(hs[Len(hs)]))

\* C7 witness: a limited call that leaves out a transaction received at the
\* cursor and truncates the rest.
C7_Witness ==
    /\ PendingAfterReturned
    /\ IsSome(args.limit)
    /\ ret.value.hashes /= <<>>
    /\ \E h \in DOMAIN transactions : ReceivedAt(h) = args.from_timestamp
    /\ Cardinality({h \in DOMAIN transactions : ReceivedAt(h) > args.from_timestamp})
          > Len(ret.value.hashes)

\* C2: paging with the returned cursor until a call returns nothing hands
\* the caller every transaction that arrived after the first cursor exactly
\* once, in ascending arrival order.
C2_PagingIsExhaustive ==
    (/\ PendingAfterReturned
     /\ ret.value.hashes = <<>>
     /\ IsSome(args.limit) /\ Unwrap(args.limit) >= 1) =>
        AscendingEnumeration(client.collected,
            {h \in DOMAIN transactions : ReceivedAt(h) > client.start})

(***************************************************************************)
(* get_transaction_receipt                                                  *)
(***************************************************************************)
ACCOUNT_CODE_STORAGE_ADDRESS == "account_code_storage"
FAILED_CONTRACT_DEPLOYMENT_BYTECODE_HASH == "failed_deployment"

\* Address::default()
ZeroAddress == "zero"

\* The JSON values of data->'to' and data->'contractAddress': an address in
\* its JSON form, or a value that is no address.
ValidJsonAddresses == {[json |-> a] : a \in {"a1", "a2", ZeroAddress}}
JsonValues == ValidJsonAddresses \cup {[json |-> "null"]}

\* serde_json::from_value::<Address>(addr): the address, when it decodes.
AddressDecodes(addr) == addr \in ValidJsonAddresses
JsonToAddress(addr) == addr.json

\* h256_to_account_address(&H256::from_slice(&addr))
H256ToAccountAddress(key) == [account |-> key]

\* U256 of the model: 0..U256Max.
U256Max == MaxGas

\* gas_limit - refunded_gas, mutated: the difference wraps around.
U256SubWrapping(a, b) == [overflow |-> FALSE, value |-> (a - b) % (U256Max + 1)]

\* gas_limit - refunded_gas on U256: the subtraction panics on overflow.
U256Sub(a, b) ==
    IF b > a THEN [overflow |-> TRUE, value |-> 0]
    ELSE [overflow |-> FALSE, value |-> a - b]

\* bigdecimal_to_u256(val)
BigdecimalToU256(val) == val

\* The rows of the CTE sl: the storage logs of the transaction for the
\* account code storage address that come last in
\* (miniblock_number, operation_number); LIMIT 1 takes one of them.
LatestStorageLogs(hash) ==
    LET mine == {i \in DOMAIN storage_logs :
                    /\ storage_logs[i].address = ACCOUNT_CODE_STORAGE_ADDRESS
                    /\ storage_logs[i].tx_hash = hash}
        Before(i, j) ==
            \/ storage_logs[i].miniblock_number < storage_logs[j].miniblock_number
            \/ /\ storage_logs[i].miniblock_number = storage_logs[j].miniblock_number
               /\ storage_logs[i].operation_number < storage_logs[j].operation_number
    IN  {i \in mine : \A j \in mine : ~Before(i, j)}

\* LEFT JOIN sl ON sl.value != $3, sl.key as "contract_address?", mutated:
\* the failed-deployment marker is not excluded.
ContractAddressColumnUnfiltered(sl) ==
    IF sl = None THEN None ELSE Some(storage_logs[Unwrap(sl)].key)

\* LEFT JOIN sl ON sl.value != $3, sl.key as "contract_address?"
ContractAddressColumn(sl) ==
    IF sl /= None /\ storage_logs[Unwrap(sl)].value /= FAILED_CONTRACT_DEPLOYMENT_BYTECODE_HASH
    THEN Some(storage_logs[Unwrap(sl)].key)
    ELSE None

\* LEFT JOIN miniblocks ON miniblocks.number = transactions.miniblock_number
JoinedMiniblock(row) ==
    IF IsSome(row.miniblock_number) /\ Unwrap(row.miniblock_number) \in DOMAIN miniblocks
    THEN Some(miniblocks[Unwrap(row.miniblock_number)])
    ELSE None

\* The row the receipt query returns for a stored transaction; sl is the row
\* of the CTE (None when it is empty).
DbRow(hash, sl) ==
    LET row == transactions[hash]
        mb == JoinedMiniblock(row)
    IN  [tx_hash |-> hash,
         index_in_block |-> row.index_in_block,
         l1_batch_tx_index |-> row.l1_batch_tx_index,
         block_number |-> row.miniblock_number,
         error |-> row.error,
         effective_gas_price |-> row.effective_gas_price,
         initiator_address |-> row.initiator_address,
         transfer_to |-> row.transfer_to,
         execute_contract_address |-> row.execute_contract_address,
         tx_format |-> row.tx_format,
         refunded_gas |-> row.refunded_gas,
         gas_limit |-> row.gas_limit,
         block_hash |-> IF IsSome(mb) THEN Some(Unwrap(mb).hash) ELSE None,
         l1_batch_number |-> IF IsSome(mb) THEN Unwrap(mb).l1_batch_number ELSE None,
         contract_address |-> ContractAddressColumn(sl)]

\* The match on (block_number, error), mutated: an error counts only for an
\* included transaction.
StatusIncludedOnly(block_number, error) ==
    IF IsNone(block_number) THEN None
    ELSE IF IsSome(error) THEN Some(0) ELSE Some(1)

\* let status = match (db_row.block_number, db_row.error) { .. }
Status(block_number, error) ==
    IF IsSome(error) THEN Some(0)
    ELSE IF IsSome(block_number) THEN Some(1)
    ELSE None

\* Option::or
OptionOr(a, b) == IF IsSome(a) THEN a ELSE b

\* transfer_to.or(execute_contract_address), mutated: the contract address
\* comes first.
ToJsonContractFirst(transfer_to, execute_contract_address) ==
    OptionOr(execute_contract_address, transfer_to)

\* db_row.transfer_to.or(db_row.execute_contract_address)
ToJson(transfer_to, execute_contract_address) ==
    OptionOr(transfer_to, execute_contract_address)

UnwrapOrDefault(o) == IF IsSome(o) THEN Unwrap(o) ELSE 0

\* The closure of .map(|db_row| ..) panics: .expect("invalid address value
\* in the database") or the U256 subtraction.
ReceiptPanics(db_row) ==
    LET to == ToJson(db_row.transfer_to, db_row.execute_contract_address)
    IN  \/ IsSome(to) /\ ~AddressDecodes(Unwrap(to))
        \/ /\ IsSome(db_row.gas_limit)
           /\ U256Sub(BigdecimalToU256(Unwrap(db_row.gas_limit)), db_row.refunded_gas).overflow

\* TransactionReceipt { .. } of the closure of .map(|db_row| ..)
ReceiptOf(db_row) ==
    LET to == ToJson(db_row.transfer_to, db_row.execute_contract_address)
    IN  [transaction_hash |-> db_row.tx_hash,
         transaction_index |-> UnwrapOrDefault(db_row.index_in_block),
         block_hash |-> db_row.block_hash,
         block_number |-> db_row.block_number,
         l1_batch_tx_index |-> db_row.l1_batch_tx_index,
         l1_batch_number |-> db_row.l1_batch_number,
         from |-> db_row.initiator_address,
         to |-> IF IsSome(to) THEN Some(JsonToAddress(Unwrap(to))) ELSE Some(ZeroAddress),
         gas_used |->
            IF IsSome(db_row.gas_limit)
            THEN Some(U256Sub(BigdecimalToU256(Unwrap(db_row.gas_limit)),
                              db_row.refunded_gas).value)
            ELSE None,
         effective_gas_price |-> Some(UnwrapOrDefault(db_row.effective_gas_price)),
         contract_address |->
            IF IsSome(db_row.contract_address)
            THEN Some(H256ToAccountAddress(Unwrap(db_row.contract_address)))
            ELSE None,
         logs |-> <<>>,
         l2_to_l1_logs |-> <<>>,
         status |-> Status(db_row.block_number, db_row.error),
         root |-> db_row.block_hash,
         transaction_type |-> Some(UnwrapOrDefault(db_row.tx_format))]

\* The rows of the sequence table that belong to the transaction.
RowsOf(table, hash) == {i \in DOMAIN table : table[i].tx_hash = hash}

\* ORDER BY miniblock_number ASC, event_index_in_block ASC over the rows H of
\* events, selected with Null block_hash and Null l1_batch_number.
RECURSIVE OrderEvents(_)
OrderEvents(H) ==
    IF H = {} THEN <<>>
    ELSE LET i == CHOOSE x \in H : \A y \in H :
                     \/ events[x].miniblock_number < events[y].miniblock_number
                     \/ /\ events[x].miniblock_number = events[y].miniblock_number
                        /\ events[x].event_index_in_block <= events[y].event_index_in_block
         IN  <<[miniblock_number |-> events[i].miniblock_number,
                event_index_in_block |-> events[i].event_index_in_block,
                tx_hash |-> events[i].tx_hash,
                block_hash |-> None, l1_batch_number |-> None]>>
             \o OrderEvents(H \ {i})

\* ORDER BY log_index_in_tx ASC over the rows H of l2_to_l1_logs, selected
\* with Null block_hash and Null l1_batch_number.
RECURSIVE OrderL2ToL1Logs(_)
OrderL2ToL1Logs(H) ==
    IF H = {} THEN <<>>
    ELSE LET i == CHOOSE x \in H : \A y \in H :
                     l2_to_l1_logs[x].log_index_in_tx <= l2_to_l1_logs[y].log_index_in_tx
         IN  <<[miniblock_number |-> l2_to_l1_logs[i].miniblock_number,
                log_index_in_tx |-> l2_to_l1_logs[i].log_index_in_tx,
                tx_hash |-> l2_to_l1_logs[i].tx_hash,
                block_hash |-> None, l1_batch_number |-> None]>>
             \o OrderL2ToL1Logs(H \ {i})

\* The stamping closure, mutated: the block hash and batch number are read
\* from the miniblock of the log row as the store has it now.
StampFromStore(log, receipt) ==
    LET known == log.miniblock_number \in DOMAIN miniblocks
    IN  [log EXCEPT
           !.block_hash = IF known THEN Some(miniblocks[log.miniblock_number].hash)
                          ELSE None,
           !.l1_batch_number = IF known THEN miniblocks[log.miniblock_number].l1_batch_number
                               ELSE None]

\* log.block_hash = receipt.block_hash;
\* log.l1_batch_number = receipt.l1_batch_number;
Stamp(log, receipt) ==
    [log EXCEPT !.block_hash = receipt.block_hash,
                !.l1_batch_number = receipt.l1_batch_number]

StampAll(rows, receipt) == [i \in DOMAIN rows |-> Stamp(rows[i], receipt)]

GetReceiptCall(hash) ==
    /\ pc = "idle"
    /\ pc' = "gr_record"
    /\ args' = [op |-> "get_transaction_receipt", hash |-> hash]
    /\ UNCHANGED <<store, locals, lookups, ret, client, second_read>>

GetReceiptRecordErr ==
    /\ pc = "gr_record"
    /\ lookups' = Append(lookups, "failed")
    /\ Finish(Err)
    /\ UNCHANGED <<store, args, locals, client, second_read>>

\* fetch_optional finds no row: receipt is None.
GetReceiptRecordNone ==
    /\ pc = "gr_record"
    /\ args.hash \notin DOMAIN transactions
    /\ lookups' = Append(lookups, "absent")
    /\ Finish(Ok(None))
    /\ UNCHANGED <<store, args, locals, client, second_read>>

\* The rows LIMIT 1 can leave in sl.
SlChoices(hash) ==
    IF LatestStorageLogs(hash) = {} THEN {None}
    ELSE {Some(i) : i \in LatestStorageLogs(hash)}

GetReceiptRecordPanic ==
    /\ pc = "gr_record"
    /\ args.hash \in DOMAIN transactions
    /\ \E sl \in SlChoices(args.hash) : ReceiptPanics(DbRow(args.hash, sl))
    /\ lookups' = Append(lookups, "found")
    /\ Finish(Panic)
    /\ UNCHANGED <<store, args, locals, client, second_read>>

GetReceiptRecord ==
    /\ pc = "gr_record"
    /\ args.hash \in DOMAIN transactions
    /\ \E sl \in SlChoices(args.hash) :
          /\ ~ReceiptPanics(DbRow(args.hash, sl))
          /\ locals' = [op |-> "get_transaction_receipt",
                        receipt |-> ReceiptOf(DbRow(args.hash, sl))]
    /\ lookups' = Append(lookups, "found")
    /\ pc' = "gr_logs"
    /\ UNCHANGED <<store, args, ret, client, second_read>>

GetReceiptLogsErr ==
    /\ pc = "gr_logs"
    /\ lookups' = Append(lookups, "failed")
    /\ Finish(Err)
    /\ UNCHANGED <<store, args, locals, client, second_read>>

GetReceiptLogs ==
    /\ pc = "gr_logs"
    /\ LET rows == OrderEvents(RowsOf(events, args.hash))
       IN  /\ locals' = [locals EXCEPT !.receipt.logs = StampAll(rows, locals.receipt)]
           /\ lookups' = Append(lookups, IF rows = <<>> THEN "absent" ELSE "found")
    /\ pc' = "gr_l2_to_l1_logs"
    /\ UNCHANGED <<store, args, ret, client, second_read>>

GetReceiptL2ToL1LogsErr ==
    /\ pc = "gr_l2_to_l1_logs"
    /\ lookups' = Append(lookups, "failed")
    /\ Finish(Err)
    /\ UNCHANGED <<store, args, locals, client, second_read>>

GetReceiptL2ToL1Logs ==
    /\ pc = "gr_l2_to_l1_logs"
    /\ LET rows == OrderL2ToL1Logs(RowsOf(l2_to_l1_logs, args.hash))
           receipt == [locals.receipt EXCEPT
                         !.l2_to_l1_logs = StampAll(rows, locals.receipt)]
       IN  /\ locals' = [locals EXCEPT !.receipt = receipt]
           /\ lookups' = Append(lookups, IF rows = <<>> THEN "absent" ELSE "found")
           /\ Finish(Ok(Some(receipt)))
    /\ UNCHANGED <<store, args, client, second_read>>

GetReceipt ==
    \/ \E h \in Hashes : GetReceiptCall(h)
    \/ GetReceiptRecordErr
    \/ GetReceiptRecordNone
    \/ GetReceiptRecordPanic
    \/ GetReceiptRecord
    \/ GetReceiptLogsErr
    \/ GetReceiptLogs
    \/ GetReceiptL2ToL1LogsErr
    \/ GetReceiptL2ToL1Logs

(***************************************************************************)
(* The receipt model: one stored transaction, any inclusion, error,         *)
(* addresses and gas, with or without its miniblock row.                    *)
(***************************************************************************)
ReceiptRows ==
    {[DefaultRow EXCEPT !.miniblock_number = m, !.error = e, !.transfer_to = t,
                        !.execute_contract_address = c, !.gas_limit = g,
                        !.refunded_gas = r,
                        !.index_in_block = m, !.tx_format = m] :
        m \in Option({1}), e \in Option({"e"}),
        t \in Option(JsonValues), c \in Option(JsonValues),
        g \in Option(0..MaxGas), r \in 0..MaxGas}

MiniblockRows == {[hash |-> "bh1", l1_batch_number |-> b] : b \in Option({1})}

InitReceipt ==
    /\ \E row \in ReceiptRows : transactions = <<row>>
    /\ miniblocks \in {<<>>} \cup {<<mb>> : mb \in MiniblockRows}
    /\ storage_logs = <<>>
    /\ events = <<>>
    /\ l2_to_l1_logs = <<>>
    /\ historical_nonce = [a \in Accounts |-> None]
    /\ CallIdle

SpecReceipt == InitReceipt /\ [][GetReceipt]_vars

\* get_transaction_receipt has returned a receipt.
ReceiptReturned ==
    /\ pc = "done"
    /\ args.op = "get_transaction_receipt"
    /\ ret.kind = "ok"
    /\ IsSome(ret.value)

Receipt == Unwrap(ret.value)

\* The transaction row has been read by a call of get_transaction_receipt.
RecordRead ==
    /\ args.op = "get_transaction_receipt"
    /\ lookups /= <<>>
    /\ lookups[1] = "found"

\* C3: the status of a receipt depends on (inclusion block, error) alone:
\* Failed (0) with an error, included or not; Successful (1) without an
\* error and with an inclusion block; absent without both.
C3_StatusResolution ==
    ReceiptReturned =>
        LET row == transactions[args.hash]
        IN  /\ IsSome(row.error) => Receipt.status = Some(0)
            /\ IsNone(row.error) /\ IsSome(row.miniblock_number) => Receipt.status = Some(1)
            /\ IsNone(row.error) /\ IsNone(row.miniblock_number) => Receipt.status = None

\* C3 witness: a receipt of a transaction with an error and no inclusion block.
C3_Witness ==
    /\ ReceiptReturned
    /\ IsSome(transactions[args.hash].error)
    /\ IsNone(transactions[args.hash].miniblock_number)
    /\ Receipt.status = Some(0)

\* C4: the receipt's `to` is the transfer target when present, else the
\* deployed contract address when present, else the zero address; it is
\* never absent.
C4_AddressResolution ==
    ReceiptReturned =>
        LET row == transactions[args.hash]
        IN  /\ IsSome(Receipt.to)
            /\ IsSome(row.transfer_to) => Receipt.to = Some(Unwrap(row.transfer_to).json)
            /\ IsNone(row.transfer_to) /\ IsSome(row.execute_contract_address) =>
                  Receipt.to = Some(Unwrap(row.execute_contract_address).json)
            /\ IsNone(row.transfer_to) /\ IsNone(row.execute_contract_address) =>
                  Receipt.to = Some(ZeroAddress)

\* C4 witness: a receipt of a transaction with both addresses present and
\* different.
C4_Witness ==
    /\ ReceiptReturned
    /\ IsSome(transactions[args.hash].transfer_to)
    /\ IsSome(transactions[args.hash].execute_contract_address)
    /\ transactions[args.hash].transfer_to /= transactions[args.hash].execute_contract_address

\* C4 witness: a receipt of a transaction with neither address.
C4_WitnessDefault ==
    /\ ReceiptReturned
    /\ IsNone(transactions[args.hash].transfer_to)
    /\ IsNone(transactions[args.hash].execute_contract_address)
    /\ Receipt.to = Some(ZeroAddress)

\* C6: with gas limit g and refunded gas r, a returned receipt has r <= g
\* and gas used g - r; with r > g the call ends in a fault once the row is
\* read, and no receipt carries a wrapped-around gas used.
C6_GasUsed ==
    (RecordRead /\ IsSome(transactions[args.hash].gas_limit)) =>
        LET g == Unwrap(transactions[args.hash].gas_limit)
            r == transactions[args.hash].refunded_gas
        IN  /\ r > g => pc = "done" /\ ret = Panic
            /\ (pc = "gr_logs" \/ pc = "gr_l2_to_l1_logs") =>
                  r <= g /\ locals.receipt.gas_used = Some(g - r)
            /\ ReceiptReturned => r <= g /\ Receipt.gas_used = Some(g - r)

\* C6 witness: a receipt with a positive refund below the gas limit.
C6_Witness ==
    /\ ReceiptReturned
    /\ transactions[args.hash].refunded_gas > 0
    /\ transactions[args.hash].gas_limit = Some(transactions[args.hash].refunded_gas + 1)

\* C6 witness: the fault of a refund above the gas limit, the addresses
\* being well-formed.
C6_WitnessFault ==
    /\ RecordRead
    /\ ret = Panic
    /\ transactions[args.hash].gas_limit = Some(0)
    /\ transactions[args.hash].refunded_gas = 1
    /\ IsNone(transactions[args.hash].transfer_to)
    /\ IsNone(transactions[args.hash].execute_contract_address)

(***************************************************************************)
(* The contract address model: one included transaction and any storage     *)
(* logs, of it or of another transaction, for the account code storage      *)
(* address or another one, with or without the failed-deployment marker.    *)
(***************************************************************************)
StorageLogRows ==
    {[address |-> a, tx_hash |-> h, miniblock_number |-> 1, operation_number |-> 0,
      key |-> k, value |-> v] :
        a \in {ACCOUNT_CODE_STORAGE_ADDRESS, "other_address"}, h \in {1, 2},
        k \in {"k1", "k2"},
        v \in {FAILED_CONTRACT_DEPLOYMENT_BYTECODE_HASH, "bytecode_hash"}}

\* The rows of s numbered in the order they were written.
InWriteOrder(s) == [i \in DOMAIN s |-> [s[i] EXCEPT !.operation_number = i]]

InitContract ==
    /\ \E r \in 0..MaxGas :
          transactions = <<[DefaultRow EXCEPT !.miniblock_number = Some(1),
                                              !.index_in_block = Some(0),
                                              !.gas_limit = Some(1),
                                              !.refunded_gas = r]>>
    /\ miniblocks = <<[hash |-> "bh1", l1_batch_number |-> None]>>
    /\ \E k \in 0..MaxStorageLogs :
          \E s \in [1..k -> StorageLogRows] : storage_logs = InWriteOrder(s)
    /\ events = <<>>
    /\ l2_to_l1_logs = <<>>
    /\ historical_nonce = [a \in Accounts |-> None]
    /\ CallIdle

SpecContract == InitContract /\ [][GetReceipt]_vars

\* The storage logs the transaction produced for the account code storage
\* address whose value is not the failed-deployment marker.
DeploymentLogs(hash) ==
    {i \in DOMAIN storage_logs :
        /\ storage_logs[i].address = ACCOUNT_CODE_STORAGE_ADDRESS
        /\ storage_logs[i].tx_hash = hash
        /\ storage_logs[i].value /= FAILED_CONTRACT_DEPLOYMENT_BYTECODE_HASH}

\* The storage logs the transaction produced for the account code storage
\* address.
CodeStorageLogs(hash) ==
    {i \in DOMAIN storage_logs :
        /\ storage_logs[i].address = ACCOUNT_CODE_STORAGE_ADDRESS
        /\ storage_logs[i].tx_hash = hash}

\* The storage log i was written after every other one of the set H.
WrittenLast(i, H) ==
    \A j \in H \ {i} :
        \/ storage_logs[j].miniblock_number < storage_logs[i].miniblock_number
        \/ /\ storage_logs[j].miniblock_number = storage_logs[i].miniblock_number
           /\ storage_logs[j].operation_number < storage_logs[i].operation_number

\* C9 (amended): the receipt's contract address is decided by the storage log
\* the transaction wrote last for the reserved address: it is that log's key
\* when its value is not the failed-deployment marker, and absent when its
\* value is the marker or when the transaction wrote no such log.
C9_LastCodeStorageLogDecides ==
    ReceiptReturned =>
        LET mine == CodeStorageLogs(args.hash)
        IN  /\ mine = {} => Receipt.contract_address = None
            /\ \A i \in mine :
                  WrittenLast(i, mine) =>
                    Receipt.contract_address =
                      IF storage_logs[i].value = FAILED_CONTRACT_DEPLOYMENT_BYTECODE_HASH
                      THEN None
                      ELSE Some(H256ToAccountAddress(storage_logs[i].key))

\* C9 witness: a receipt with the key of the log written last, an earlier
\* log of another key carrying the failed-deployment marker.
C9_Witness ==
    /\ ReceiptReturned
    /\ \E i, j \in CodeStorageLogs(args.hash) :
          /\ storage_logs[j].operation_number < storage_logs[i].operation_number
          /\ storage_logs[j].value = FAILED_CONTRACT_DEPLOYMENT_BYTECODE_HASH
          /\ storage_logs[j].key /= storage_logs[i].key
          /\ Receipt.contract_address = Some(H256ToAccountAddress(storage_logs[i].key))

\* C9: the receipt's contract address is the key of one of the storage logs
\* the transaction produced for the reserved address with a value other than
\* the failed-deployment marker: present whenever there is such a log, in
\* whatever order the logs were written, and absent only when there is none.
C9_ContractAddressAmongDeployments ==
    ReceiptReturned =>
        LET good == DeploymentLogs(args.hash)
        IN  /\ good /= {} =>
                  \E i \in good :
                      Receipt.contract_address = Some(H256ToAccountAddress(storage_logs[i].key))
            /\ good = {} => Receipt.contract_address = None

(***************************************************************************)
(* get_transaction and get_transaction_details                              *)
(***************************************************************************)

\* tx_index.as_u64() > i32::MAX as u64
ExceedsI32(tx_index) == tx_index > MaxTxIndex

\* The rows the WHERE clause of get_transaction selects.
TransactionRows(transaction_id) ==
    IF transaction_id.kind = "hash"
    THEN {h \in DOMAIN transactions : h = transaction_id.hash}
    ELSE {h \in DOMAIN transactions :
            /\ transactions[h].index_in_block = Some(transaction_id.tx_index)
            /\ transactions[h].miniblock_number = Some(transaction_id.block)}

\* extract_web3_transaction(row, chain_id) and tx_details.into()
View(hash) == [hash |-> hash, block_number |-> transactions[hash].miniblock_number]

GetTransactionCall(transaction_id) ==
    /\ pc = "idle"
    /\ pc' = "gt_bind"
    /\ args' = [op |-> "get_transaction", transaction_id |-> transaction_id]
    /\ UNCHANGED <<store, locals, lookups, ret, client, second_read>>

\* TransactionId::Block with a tx_index above i32::MAX: return Ok(None)
GetTransactionIndexTooLarge ==
    /\ pc = "gt_bind"
    /\ args.transaction_id.kind = "block"
    /\ ExceedsI32(args.transaction_id.tx_index)
    /\ Finish(Ok(None))
    /\ UNCHANGED <<store, args, locals, lookups, client, second_read>>

GetTransactionBind ==
    /\ pc = "gt_bind"
    /\ args.transaction_id.kind = "block" => ~ExceedsI32(args.transaction_id.tx_index)
    /\ pc' = "gt_query"
    /\ UNCHANGED <<store, args, locals, lookups, ret, client, second_read>>

GetTransactionQueryErr ==
    /\ pc = "gt_query"
    /\ lookups' = Append(lookups, "failed")
    /\ Finish(Err)
    /\ UNCHANGED <<store, args, locals, client, second_read>>

GetTransactionQuery ==
    /\ pc = "gt_query"
    /\ LET rows == TransactionRows(args.transaction_id)
       IN  \/ /\ rows = {}
              /\ lookups' = Append(lookups, "absent")
              /\ Finish(Ok(None))
           \/ /\ \E h \in rows : Finish(Ok(Some(View(h))))
              /\ lookups' = Append(lookups, "found")
    /\ UNCHANGED <<store, args, locals, client, second_read>>

GetTransaction ==
    \/ \E h \in Hashes : GetTransactionCall([kind |-> "hash", hash |-> h])
    \/ \E i \in 0..(MaxTxIndex + 1) :
          GetTransactionCall([kind |-> "block", block |-> 1, tx_index |-> i])
    \/ GetTransactionIndexTooLarge
    \/ GetTransactionBind
    \/ GetTransactionQueryErr
    \/ GetTransactionQuery

GetTransactionDetailsCall(hash) ==
    /\ pc = "idle"
    /\ pc' = "gd_query"
    /\ args' = [op |-> "get_transaction_details", hash |-> hash]
    /\ UNCHANGED <<store, locals, lookups, ret, client, second_read>>

GetTransactionDetailsQueryErr ==
    /\ pc = "gd_query"
    /\ lookups' = Append(lookups, "failed")
    /\ Finish(Err)
    /\ UNCHANGED <<store, args, locals, client, second_read>>

GetTransactionDetailsQuery ==
    /\ pc = "gd_query"
    /\ IF args.hash \in DOMAIN transactions
       THEN /\ lookups' = Append(lookups, "found")
            /\ Finish(Ok(Some(View(args.hash))))
       ELSE /\ lookups' = Append(lookups, "absent")
            /\ Finish(Ok(None))
    /\ UNCHANGED <<store, args, locals, client, second_read>>

GetTransactionDetails ==
    \/ \E h \in Hashes : GetTransactionDetailsCall(h)
    \/ GetTransactionDetailsQueryErr
    \/ GetTransactionDetailsQuery

(***************************************************************************)
(* The writers of the store: submission, inclusion in a miniblock,          *)
(* rejection, batch assignment and the two log streams.                     *)
(***************************************************************************)
call == <<pc, args, locals, lookups, ret, client, second_read>>

Max(a, b) == IF a >= b THEN a ELSE b

Pending(h) ==
    /\ h \in DOMAIN transactions
    /\ IsNone(transactions[h].miniblock_number)
    /\ IsNone(transactions[h].error)

\* The writers submit one transaction, the one the calls then ask for.
SubmitTx(initiator_address, nonce, received_at) ==
    /\ transactions = <<>>
    /\ transactions' = Append(transactions,
          [DefaultRow EXCEPT !.initiator_address = initiator_address,
                             !.nonce = nonce, !.received_at = received_at,
                             !.gas_limit = Some(1)])
    /\ UNCHANGED <<miniblocks, storage_logs, events, l2_to_l1_logs, historical_nonce, call>>

\* The transaction is included in miniblock 1, with or without an error and
\* with the gas its execution refunded; the nonce of its account moves past it.
IncludeTx(h, error, refunded_gas) ==
    /\ Pending(h)
    /\ transactions' = [transactions EXCEPT ![h].miniblock_number = Some(1),
                                            ![h].index_in_block = Some(h - 1),
                                            ![h].error = error,
                                            ![h].refunded_gas = refunded_gas]
    /\ miniblocks' = IF miniblocks = <<>>
                     THEN <<[hash |-> "bh1", l1_batch_number |-> None]>>
                     ELSE miniblocks
    /\ historical_nonce' =
          [a \in Accounts |->
             IF a = transactions[h].initiator_address
             THEN Some(Max(UnwrapOrDefault(historical_nonce[a]), transactions[h].nonce + 1))
             ELSE Some(UnwrapOrDefault(historical_nonce[a]))]
    /\ UNCHANGED <<storage_logs, events, l2_to_l1_logs, call>>

RejectTx(h) ==
    /\ Pending(h)
    /\ transactions' = [transactions EXCEPT ![h].error = Some("e")]
    /\ UNCHANGED <<miniblocks, storage_logs, events, l2_to_l1_logs, historical_nonce, call>>

AssignBatch ==
    /\ miniblocks /= <<>>
    /\ IsNone(miniblocks[1].l1_batch_number)
    /\ miniblocks' = [miniblocks EXCEPT ![1].l1_batch_number = Some(1)]
    /\ UNCHANGED <<transactions, storage_logs, events, l2_to_l1_logs, historical_nonce, call>>

AppendEvent(h) ==
    /\ Len(events) < MaxLogs
    /\ events' = Append(events, [tx_hash |-> h, miniblock_number |-> 1,
                                 event_index_in_block |-> Len(events)])
    /\ UNCHANGED <<transactions, miniblocks, storage_logs, l2_to_l1_logs, historical_nonce, call>>

AppendL2ToL1Log(h) ==
    /\ Len(l2_to_l1_logs) < MaxLogs
    /\ l2_to_l1_logs' = Append(l2_to_l1_logs, [tx_hash |-> h, miniblock_number |-> 1,
                                               log_index_in_tx |-> Len(l2_to_l1_logs)])
    /\ UNCHANGED <<transactions, miniblocks, storage_logs, events, historical_nonce, call>>

Writers ==
    \/ SubmitTx("A", 0, 1)
    \/ \E h \in Hashes, e \in Option({"e"}), r \in 0..MaxGas : IncludeTx(h, e, r)
    \/ \E h \in Hashes : RejectTx(h)
    \/ AssignBatch
    \/ \E h \in {1, 2} : AppendEvent(h)
    \/ \E h \in {1, 2} : AppendL2ToL1Log(h)

(***************************************************************************)
(* The specification: an empty store, the writers, and one call of any of   *)
(* the five operations running against them.                                *)
(***************************************************************************)
Init ==
    /\ transactions = <<>>
    /\ StoreEmpty
    /\ historical_nonce = [a \in Accounts |-> None]
    /\ CallIdle

Next ==
    \/ Writers
    \/ GetReceipt
    \/ GetTransaction
    \/ GetTransactionDetails
    \/ PendingAfter
    \/ NextNonce

Spec == Init /\ [][Next]_vars

\* Every row of the sequence rows carries the block hash and the batch
\* number of the receipt.
StampedLike(rows, receipt) ==
    \A i \in DOMAIN rows :
        /\ rows[i].block_hash = receipt.block_hash
        /\ rows[i].l1_batch_number = receipt.l1_batch_number

\* C5: whatever the writers do between the three fetches of a call, every
\* log and every cross-domain message attached to a receipt carries the
\* receipt's own block hash and batch number (absent when the receipt's are).
C5_ReceiptStamping ==
    /\ (args.op = "get_transaction_receipt" /\ locals.op = "get_transaction_receipt") =>
          /\ StampedLike(locals.receipt.logs, locals.receipt)
          /\ StampedLike(locals.receipt.l2_to_l1_logs, locals.receipt)
    /\ ReceiptReturned =>
          /\ StampedLike(Receipt.logs, Receipt)
          /\ StampedLike(Receipt.l2_to_l1_logs, Receipt)

\* C5 witness: a receipt read while the transaction was pending, returned
\* with a log and a message after the miniblock was written and assigned to
\* a batch.
C5_Witness ==
    /\ ReceiptReturned
    /\ Receipt.logs /= <<>>
    /\ Receipt.l2_to_l1_logs /= <<>>
    /\ Receipt.block_hash = None
    /\ miniblocks /= <<>>
    /\ IsSome(miniblocks[1].l1_batch_number)
    /\ IsSome(transactions[args.hash].miniblock_number)

\* C5 witness: a receipt of an included transaction with a log and a message
\* that carry the block hash and the batch number.
C5_WitnessIncluded ==
    /\ ReceiptReturned
    /\ Receipt.logs /= <<>>
    /\ Receipt.l2_to_l1_logs /= <<>>
    /\ IsSome(Receipt.block_hash)
    /\ IsSome(Receipt.l1_batch_number)

Range(s) == {s[i] : i \in DOMAIN s}

\* C8: a call whose store lookup finds nothing, and none of whose lookups
\* fails, ends with an absent or empty result or a value, never with an error
\* and never with a fault: an unknown identifier gives None, no arrival gives
\* an empty list and no cursor; and an error is always a failure of the store
\* handed on.
C8_AbsentIsNeverAFault ==
    pc = "done" =>
        /\ ("absent" \in Range(lookups) /\ "failed" \notin Range(lookups)) =>
              ret.kind = "ok"
        /\ ret.kind = "err" => "failed" \in Range(lookups)
        /\ (/\ args.op \in {"get_transaction_receipt", "get_transaction",
                             "get_transaction_details"}
            /\ lookups = <<"absent">>) => ret = Ok(None)
        /\ (args.op = "get_pending_txs_hashes_after" /\ lookups = <<"absent">>) =>
              ret = Ok([hashes |-> <<>>, last_loc |-> None])

(***************************************************************************)
(* next_nonce under the race of its two reads: the store starts empty and   *)
(* is written while the call runs.  Transactions of either account are      *)
(* submitted with any nonce, rejected, or included; the account executes    *)
(* its transactions in nonce order, so that there are no gaps before its    *)
(* latest nonce.  Rows are never deleted.                                   *)
(***************************************************************************)
MaxRaceTxs == 2      \* rows of the transactions table the racing writers submit

SubmitAnother(initiator_address, nonce, is_priority) ==
    /\ Len(transactions) < MaxRaceTxs
    /\ transactions' = Append(transactions,
          [DefaultRow EXCEPT !.initiator_address = initiator_address,
                             !.nonce = nonce, !.is_priority = is_priority])
    /\ UNCHANGED <<miniblocks, storage_logs, events, l2_to_l1_logs, historical_nonce, call>>

\* The pending transaction that carries the latest nonce of its account is
\* included, and the latest nonce moves past it.
IncludeInOrder(h, error) ==
    /\ Pending(h)
    /\ ~transactions[h].is_priority
    /\ transactions[h].nonce =
          UnwrapOrDefault(historical_nonce[transactions[h].initiator_address])
    /\ IncludeTx(h, error, 0)

RaceWriters ==
    \/ \E k \in NonceRowKinds, n \in Nonces : SubmitAnother(k[1], n, k[2])
    \/ \E h \in 1..MaxRaceTxs, e \in Option({"e"}) : IncludeInOrder(h, e)
    \/ \E h \in 1..MaxRaceTxs : RejectTx(h)

InitRace ==
    /\ transactions = <<>>
    /\ StoreEmpty
    /\ historical_nonce \in {[a \in Accounts |-> v] : v \in {None, Some(0)}}
    /\ CallIdle

NextRace == RaceWriters \/ NextNonce

SpecNonceRace == InitRace /\ [][NextRace]_vars

\* The non-rejected non-priority transactions of the account in the table T.
OutstandingIn(T, account) ==
    {h \in DOMAIN T :
        /\ T[h].initiator_address = account
        /\ ~T[h].is_priority
        /\ ~Rejected(T[h])}

NoDuplicateNoncesIn(T, account) ==
    \A g, h \in OutstandingIn(T, account) : T[g].nonce = T[h].nonce => g = h

\* C11: when submissions, in-order inclusions and rejections interleave
\* between the read of the confirmed nonce and the read of the non-rejected
\* nonces, and the non-rejected nonces of the account are not duplicated,
\* the returned nonce is (1) at least the confirmed nonce that was read,
\* (2) at least the latest nonce of the account at the second read and
\* (3) not the nonce of any non-rejected non-priority transaction of the
\* account that the store held at the second read.
C11_RaceBounds ==
    (/\ NextNonceReturned
     /\ NoDuplicateNoncesIn(second_read.transactions, args.initiator_address)) =>
        LET a == args.initiator_address
            T == second_read.transactions
        IN  /\ ret.value >= locals.latest_nonce
            /\ ret.value >= UnwrapOrDefault(second_read.historical_nonce[a])
            /\ \A h \in OutstandingIn(T, a) : T[h].nonce /= ret.value

\* C11 witness: the latest nonce of the account moved between the two reads
\* and a transaction beyond it was outstanding at the second read.
C11_Witness ==
    /\ NextNonceReturned
    /\ NoDuplicateNoncesIn(second_read.transactions, args.initiator_address)
    /\ LET a == args.initiator_address
           latest == UnwrapOrDefault(second_read.historical_nonce[a])
       IN  /\ latest > locals.latest_nonce
           /\ ret.value > latest

\* A second case of C11: the nonce of a transaction the second read saw
\* rejected is the one returned, next to an outstanding transaction.
C11_WitnessRejected ==
    /\ NextNonceReturned
    /\ LET a == args.initiator_address
           T == second_read.transactions
       IN  /\ OutstandingIn(T, a) /= {}
           /\ \E h \in DOMAIN T : /\ T[h].initiator_address = a
                                  /\ Rejected(T[h])
                                  /\ T[h].nonce = ret.value

(***************************************************************************)
(* download_bytes (core/lib/prover_utils/src/lib.rs): a request is          *)
(* client.get(url).send() followed by response.bytes(); it yields the bytes *)
(* or the error of whichever of the two failed.  lookups holds the outcome  *)
(* of every request sent so far, in order.                                  *)
(***************************************************************************)
DOWNLOAD_RETRIES == 5

Urls == {"key_download_url"}
Bytes == {"b1", "b2"}
ReqwestErrors == {"send", "bytes"}
ReqwestErr(e) == [kind |-> "err", error |-> e]

\* while retry_count < DOWNLOAD_RETRIES, mutated: one more turn of the loop.
RetriesLeftInclusive(retry_count) == retry_count <= DOWNLOAD_RETRIES

\* while retry_count < DOWNLOAD_RETRIES
RetriesLeft(retry_count) == retry_count < DOWNLOAD_RETRIES

DownloadBytesCall(key_download_url) ==
    /\ pc = "idle"
    /\ pc' = "dl_build"
    /\ args' = [op |-> "download_bytes", key_download_url |-> key_download_url]
    /\ UNCHANGED <<store, locals, lookups, ret, client, second_read>>

\* Client::builder().timeout(..).build().unwrap(): the builder fails
DownloadBuildPanic ==
    /\ pc = "dl_build"
    /\ Finish(Panic)
    /\ UNCHANGED <<store, args, locals, lookups, client, second_read>>

\* ... or yields the client; let mut retry_count = 0
DownloadBuild ==
    /\ pc = "dl_build"
    /\ locals' = [op |-> "download_bytes", retry_count |-> 0]
    /\ pc' = "dl_loop"
    /\ UNCHANGED <<store, args, lookups, ret, client, second_read>>

\* A request inside the loop succeeds: Ok(bytes) => return Ok(bytes)
DownloadLoopOk(bytes) ==
    /\ pc = "dl_loop"
    /\ RetriesLeft(locals.retry_count)
    /\ lookups' = Append(lookups, Ok(bytes))
    /\ Finish(Ok(bytes))
    /\ UNCHANGED <<store, args, locals, client, second_read>>

\* A request inside the loop fails: Err(_) => retry_count += 1
DownloadLoopErr(e) ==
    /\ pc = "dl_loop"
    /\ RetriesLeft(locals.retry_count)
    /\ lookups' = Append(lookups, ReqwestErr(e))
    /\ locals' = [locals EXCEPT !.retry_count = @ + 1]
    /\ pc' = "dl_backoff"
    /\ UNCHANGED <<store, args, ret, client, second_read>>

\* vlog::warn!(..); std::thread::sleep(Duration::from_secs(5))
DownloadBackoff ==
    /\ pc = "dl_backoff"
    /\ pc' = "dl_loop"
    /\ UNCHANGED <<store, args, locals, lookups, ret, client, second_read>>

\* The request after the loop: its outcome is the outcome of the call.
DownloadFinal(outcome) ==
    /\ pc = "dl_loop"
    /\ ~RetriesLeft(locals.retry_count)
    /\ lookups' = Append(lookups, outcome)
    /\ Finish(outcome)
    /\ UNCHANGED <<store, args, locals, client, second_read>>

DownloadBytes ==
    \/ \E u \in Urls : DownloadBytesCall(u)
    \/ DownloadBuildPanic
    \/ DownloadBuild
    \/ \E b \in Bytes : DownloadLoopOk(b)
    \/ \E e \in ReqwestErrors : DownloadLoopErr(e)
    \/ DownloadBackoff
    \/ \E b \in Bytes : DownloadFinal(Ok(b))
    \/ \E e \in ReqwestErrors : DownloadFinal(ReqwestErr(e))

InitDownload ==
    /\ transactions = <<>>
    /\ StoreEmpty
    /\ historical_nonce = [a \in Accounts |-> None]
    /\ CallIdle

SpecDownload == InitDownload /\ [][DownloadBytes]_vars

\* Every request ends, by its answer or by DOWNLOAD_TIMEOUT, and every sleep
\* ends: a step of the run that can be taken is taken.
SpecDownloadLive == SpecDownload /\ WF_vars(DownloadBytes)

DownloadReturned == pc = "done" /\ args.op = "download_bytes"

Succeeded(i) == lookups[i].kind = "ok"

\* The requests of a run: never more than 6; a successful one is the last
\* one, it ends the run and its bytes are returned.  The run returns an error
\* exactly when 6 requests were sent and all failed, and the error is the
\* one of the 6th request.
DownloadRequests ==
    /\ Len(lookups) <= 6
    /\ \A i \in DOMAIN lookups :
          Succeeded(i) => /\ i = Len(lookups)
                          /\ DownloadReturned
                          /\ ret = Ok(lookups[i].value)
    /\ DownloadReturned =>
          /\ ret.kind = "err" <=> /\ Len(lookups) = 6
                                  /\ \A i \in DOMAIN lookups : ~Succeeded(i)
          /\ ret.kind = "err" => ret = lookups[6]
          /\ ret.kind = "ok" => lookups /= <<>> /\ Succeeded(Len(lookups))

\* C12: for every sequence of request outcomes a run of download_bytes
\* terminates after at most 6 requests (DOWNLOAD_RETRIES = 5 in the loop and
\* one after it); it returns the bytes of the first successful request and
\* sends no request after a success; it returns an error if and only if all
\* 6 requests fail, and that error is the one of the 6th request.
C12_DownloadTerminates ==
    /\ []DownloadRequests
    /\ <>(pc = "done")

\* C12 witness: the five requests of the loop and the one after it all
\* failed, and the run returned the error of the last one.
C12_Witness ==
    /\ DownloadReturned
    /\ Len(lookups) = DOWNLOAD_RETRIES + 1
    /\ ret.kind = "err"
    /\ ret.error = "bytes"
    /\ lookups[1].error = "send"

\* A second case of C12: two requests failed and the third returned bytes.
C12_WitnessRetried ==
    /\ DownloadReturned
    /\ Len(lookups) = 3
    /\ ret = Ok("b2")

====
